---- MODULE Spec2Model ----
(***************************************************************************)
(* Compute tasks of the Octavia controller worker (v2):                   *)
(* octavia/controller/worker/v2/tasks/compute_tasks.py.                   *)
(*                                                                         *)
(* One provisioning saga per amphora id: NovaServerGroupCreate.execute,   *)
(* ComputeCreate.execute (admission, then build), ComputeActiveWait       *)
(* .execute (poll loop), and on a failure the reverts of the tasks in     *)
(* reverse order, the failed task included (it receives the failure       *)
(* marker as its result).  Sagas of distinct amphora ids interleave.      *)
(* The compute driver and the build-rate limiter are collaborators: the   *)
(* driver's answers are chosen nondeterministically, every call made to   *)
(* it is logged.                                                          *)
(***************************************************************************)
EXTENDS Integers, Sequences, FiniteSets, TLC

\* ---- bounds ----
NumAmphorae == 2
MaxRetries == 3
MaxBuildLimit == 1
MaxLbAmphorae == 3
NumNetworks == 2

Amphorae == 1..NumAmphorae

\* ---- values ----
\* taskflow's failure marker handed to revert when execute itself failed
Failure == -1
\* Python's None (no result yet / absent value)
None == 0
\* statuses the driver reports; BUILD stands for every status that is
\* neither ACTIVE nor ERROR
ACTIVE == "ACTIVE"
ERROR == "ERROR"
BUILD == "BUILD"
Statuses == {BUILD, ACTIVE, ERROR}
\* the fault detail the driver attaches to an ERROR status
Faults == {"NoValidHost"}
NoFault == "None"

\* ids of the networks known to the deployment
NetworkId(n) == 300 + n
Networks == {NetworkId(n) : n \in 1..NumNetworks}

\* availability zone metadata: given is FALSE for None and for an empty
\* dictionary; a key that is absent reads as None
ZoneNames == {"az1"}
NoZoneName == "None"
Zone(given, zone, net) ==
  [given |-> given, compute_zone |-> zone, management_network |-> net]
NoZone == Zone(FALSE, NoZoneName, None)
Zones ==
  {NoZone} \cup {Zone(TRUE, z, n) : z \in ZoneNames \cup {NoZoneName},
                                     n \in Networks \cup {None}}

\* what build was called with; NoBuild before the call
BuildArgs(called, nets, zone) ==
  [called |-> called, network_ids |-> nets, availability_zone |-> zone]
NoBuild == BuildArgs(FALSE, <<>>, NoZoneName)

\* id the driver's build returns for the instance of amphora a
ComputeIdOf(a) == 100 + a
\* id of the server group the driver creates for the load balancer of a
ServerGroupIdOf(a) == 200 + a

VARIABLES
  amp_active_retries,  \* CONF.controller_worker.amp_active_retries
  build_rate_limit,    \* CONF.haproxy_amphora.build_rate_limit
  pc,                  \* position of each saga
  sgResult,            \* result of NovaServerGroupCreate.execute
  ccResult,            \* result of ComputeCreate.execute
  i,                   \* loop index of ComputeActiveWait.execute
  instances,           \* compute instances that exist at the driver
  groups,              \* server groups that exist at the driver
  driverCalls,         \* per saga: the driver calls made, in order
  statuses,            \* per saga: the (status, fault) answers of get_amphora
  tickets,             \* build request queue: tickets held per amphora id
  gateCalls,           \* per amphora id: calls made to the rate limiter
  sleeps,              \* per saga: time.sleep calls of the poller
  waitReports,         \* per saga: what ComputeActiveWait.execute reported
  reverts,             \* per saga: how each revert call completed
  amp_boot_network_list, \* CONF.controller_worker.amp_boot_network_list
  availability_zone,   \* per saga: the availability zone metadata given
  create_task,         \* per saga: the create task of its flow
  buildArgs,           \* per saga: network_ids and zone passed to build
  certLoad,            \* per saga: how CertComputeCreate loaded the certs
  configRender,        \* per saga: how the templaters of execute ended
  td_pc,               \* position of the teardown task
  td_amphorae,         \* db_lb.amphorae: the compute ids, in order
  td_server_group_id,  \* server_group_id given to NovaServerGroupDelete
  td_calls             \* the driver calls the teardown task made

vars == <<amp_active_retries, build_rate_limit, pc, sgResult, ccResult, i,
          instances, groups, driverCalls, statuses, tickets, gateCalls,
          sleeps, waitReports, reverts, amp_boot_network_list,
          availability_zone, create_task, buildArgs, certLoad, configRender,
          td_pc,
          td_amphorae,
          td_server_group_id, td_calls>>

conf == <<amp_active_retries, build_rate_limit>>

\* what a flow is given and never changes
inputs == <<amp_boot_network_list, availability_zone, create_task>>

teardown == <<td_pc, td_amphorae, td_server_group_id, td_calls>>

\* ---- helpers ----
\* a logged driver call: who called, what, with which id, and whether the
\* driver returned (ok) or raised
Call(task, op, arg, ok) == [task |-> task, op |-> op, arg |-> arg, ok |-> ok]

CallsOf(a, task) == SelectSeq(driverCalls[a], LAMBDA c : c.task = task)

CallsOp(a, op) == SelectSeq(driverCalls[a], LAMBDA c : c.op = op)

RECURSIVE SumOver(_, _)
SumOver(f, S) ==
  IF S = {} THEN 0
  ELSE LET x == CHOOSE y \in S : TRUE IN f[x] + SumOver(f, S \ {x})

\* ---- the build-rate limiter (amphora_rate_limit.AmphoraBuildRateLimit) ----
\* a build slot is free while fewer tickets than the limit are outstanding
has_build_slot(t, limit) == SumOver(t, DOMAIN t) < limit

\* registers a ticket for the amphora id
add_to_build_request_queue(t, amphora_id) ==
  [t EXCEPT ![amphora_id] = @ + 1]

\* removes the ticket of the amphora id if present; a no-op otherwise
remove_from_build_req_queue(t, amphora_id) ==
  [t EXCEPT ![amphora_id] = 0]

\* the state after the tasks are constructed and the configuration is
\* loaded; a flow has been submitted for the amphora ids in started, the
\* others are idle
SagasInit(started) ==
  /\ amp_active_retries \in 0..MaxRetries
  /\ build_rate_limit \in {-1} \cup 1..MaxBuildLimit
  /\ pc = [a \in Amphorae |->
             IF a \in started THEN "sg_create" ELSE "idle"]
  /\ sgResult = [a \in Amphorae |-> None]
  /\ ccResult = [a \in Amphorae |-> None]
  /\ i = [a \in Amphorae |-> 0]
  /\ driverCalls = [a \in Amphorae |-> <<>>]
  /\ statuses = [a \in Amphorae |-> <<>>]
  /\ tickets = [a \in Amphorae |-> 0]
  /\ gateCalls = [a \in Amphorae |->
                    [add |-> 0, admitted |-> 0, remove |-> 0]]
  /\ sleeps = [a \in Amphorae |-> 0]
  /\ waitReports = [a \in Amphorae |-> <<>>]
  /\ reverts = [a \in Amphorae |-> <<>>]
  /\ buildArgs = [a \in Amphorae |-> NoBuild]
  /\ certLoad = [a \in Amphorae |-> "none"]
  /\ configRender = [a \in Amphorae |-> "none"]

\* no teardown task is running
NoTeardown ==
  /\ td_pc = "idle"
  /\ td_amphorae = <<>>
  /\ td_server_group_id = None
  /\ td_calls = <<>>

\* nothing exists at the driver, no teardown is running
InitWith(started) ==
  /\ SagasInit(started)
  /\ instances = {}
  /\ groups = {}
  /\ NoTeardown

\* flows of the plain ComputeCreate task, without availability zone
\* metadata, on the one configured boot network
DefaultInputs ==
  /\ amp_boot_network_list = <<NetworkId(1)>>
  /\ availability_zone = [a \in Amphorae |-> NoZone]
  /\ create_task = [a \in Amphorae |-> "ComputeCreate"]

\* one flow per amphora id, all running concurrently
Init == InitWith(Amphorae) /\ DefaultInputs

\* a single flow
InitSingle == InitWith({1}) /\ DefaultInputs

\* where the create task of a flow starts: CertComputeCreate loads the
\* certificates before it runs ComputeCreate.execute
first_create_step(task) ==
  IF task = "CertComputeCreate" THEN "cert_load" ELSE "cc_admit"

\* ---- NovaServerGroupCreate ----
\* execute: one create_server_group call; its id is the result, a driver
\* failure propagates and the saga unwinds
NovaServerGroupCreate_execute(a) ==
  /\ pc[a] = "sg_create"
  /\ \E ok \in BOOLEAN :
       /\ driverCalls' = [driverCalls EXCEPT ![a] =
             Append(@, Call("NovaServerGroupCreate.execute",
                            "create_server_group", a, ok))]
       /\ IF ok
          THEN /\ groups' = groups \cup {ServerGroupIdOf(a)}
               /\ sgResult' = [sgResult EXCEPT ![a] = ServerGroupIdOf(a)]
               /\ pc' = [pc EXCEPT ![a] = first_create_step(create_task[a])]
          ELSE /\ groups' = groups
               /\ sgResult' = [sgResult EXCEPT ![a] = Failure]
               /\ pc' = [pc EXCEPT ![a] = "sg_revert"]
  /\ UNCHANGED <<conf, inputs, teardown, certLoad, configRender, buildArgs,
                 ccResult, i, instances, statuses, tickets, gateCalls, sleeps,
                 waitReports, reverts>>

\* revert: delete_server_group on the result, whatever it is (the failure
\* marker included); an exception of the driver is logged and swallowed
NovaServerGroupCreate_revert_outcome(delete_ok) == "returned"

NovaServerGroupCreate_revert(a) ==
  /\ pc[a] = "sg_revert"
  /\ \E delete_ok \in BOOLEAN :
       /\ driverCalls' = [driverCalls EXCEPT ![a] =
             Append(@, Call("NovaServerGroupCreate.revert",
                            "delete_server_group", sgResult[a], delete_ok))]
       /\ groups' = IF delete_ok THEN groups \ {sgResult[a]} ELSE groups
       /\ reverts' = [reverts EXCEPT ![a] =
             Append(@, [task |-> "NovaServerGroupCreate.revert",
                        outcome |->
                          NovaServerGroupCreate_revert_outcome(delete_ok)])]
       /\ pc' = [pc EXCEPT ![a] =
             IF NovaServerGroupCreate_revert_outcome(delete_ok) = "returned"
             THEN "reverted" ELSE "revert_failed"]
  /\ UNCHANGED <<conf, inputs, teardown, certLoad, configRender, buildArgs,
                 sgResult, ccResult, i, instances, statuses, tickets,
                 gateCalls, sleeps, waitReports>>

\* ---- ComputeCreate ----
\* variant: the option is not looked at, the limit is always enforced
limit_enabled_always(limit) == TRUE

\* the build limit is enabled unless the option is -1
limit_enabled(limit) == limit # -1

\* variant: an exception of the rate limiter is swallowed and execute goes
\* on to the build
ComputeCreate_execute_admit_ignores_refusal(a) ==
  /\ pc[a] = "cc_admit"
  /\ IF limit_enabled(build_rate_limit)
     THEN IF has_build_slot(tickets, build_rate_limit)
          THEN /\ tickets' = add_to_build_request_queue(tickets, a)
               /\ gateCalls' = [gateCalls EXCEPT ![a].add = @ + 1,
                                                 ![a].admitted = @ + 1]
          ELSE /\ tickets' = tickets
               /\ gateCalls' = [gateCalls EXCEPT ![a].add = @ + 1]
     ELSE UNCHANGED <<gateCalls, tickets>>
  /\ pc' = [pc EXCEPT ![a] = "cc_build"]
  /\ UNCHANGED <<conf, inputs, teardown, certLoad, configRender, buildArgs,
                 sgResult, ccResult, i, instances, groups, driverCalls,
                 statuses, sleeps, waitReports, reverts>>

\* variant: the ticket is registered under the id of the next amphora
\* instead of the run's own
ComputeCreate_execute_admit_foreign_id(a) ==
  /\ pc[a] = "cc_admit"
  /\ IF limit_enabled(build_rate_limit)
     THEN /\ IF has_build_slot(tickets, build_rate_limit)
             THEN /\ tickets' = add_to_build_request_queue(
                                   tickets, (a % NumAmphorae) + 1)
                  /\ gateCalls' = [gateCalls EXCEPT ![a].add = @ + 1,
                                                    ![a].admitted = @ + 1]
                  /\ ccResult' = ccResult
                  /\ pc' = [pc EXCEPT ![a] = "cc_build"]
             ELSE /\ tickets' = tickets
                  /\ gateCalls' = [gateCalls EXCEPT ![a].add = @ + 1]
                  /\ ccResult' = [ccResult EXCEPT ![a] = Failure]
                  /\ pc' = [pc EXCEPT ![a] = "cc_revert"]
     ELSE /\ UNCHANGED <<gateCalls, tickets, ccResult>>
          /\ pc' = [pc EXCEPT ![a] = "cc_build"]
  /\ UNCHANGED <<conf, inputs, teardown, certLoad, configRender, buildArgs,
                 sgResult, i, instances, groups, driverCalls, statuses,
                 sleeps, waitReports, reverts>>

\* execute, first part: with the limit enabled, ask the rate limiter for a
\* build slot.  Below the limit the ticket is registered; at the limit the
\* request is refused and the exception propagates (a request that waits
\* instead just leaves this step untaken).
ComputeCreate_execute_admit(a) ==
  /\ pc[a] = "cc_admit"
  /\ IF limit_enabled(build_rate_limit)
     THEN /\ IF has_build_slot(tickets, build_rate_limit)
             THEN /\ tickets' = add_to_build_request_queue(tickets, a)
                  /\ gateCalls' = [gateCalls EXCEPT ![a].add = @ + 1,
                                                    ![a].admitted = @ + 1]
                  /\ ccResult' = ccResult
                  /\ pc' = [pc EXCEPT ![a] = "cc_build"]
             ELSE /\ tickets' = tickets
                  /\ gateCalls' = [gateCalls EXCEPT ![a].add = @ + 1]
                  /\ ccResult' = [ccResult EXCEPT ![a] = Failure]
                  /\ pc' = [pc EXCEPT ![a] = "cc_revert"]
     ELSE /\ UNCHANGED <<gateCalls, tickets, ccResult>>
          /\ pc' = [pc EXCEPT ![a] = "cc_build"]
  /\ UNCHANGED <<conf, inputs, teardown, certLoad, configRender, buildArgs,
                 sgResult, i, instances, groups, driverCalls, statuses,
                 sleeps, waitReports, reverts>>

\* variant: the management network is appended to the default list
network_ids_appended(default_list, zone) ==
  IF zone.given /\ zone.management_network # None
  THEN Append(default_list, zone.management_network)
  ELSE default_list

\* the network list for the build: a copy of the configured list, replaced
\* by the zone's management network when the metadata carries one
network_ids_for(default_list, zone) ==
  IF zone.given /\ zone.management_network # None
  THEN <<zone.management_network>>
  ELSE default_list

\* the zone name for the build, None without metadata
amp_availability_zone_for(zone) ==
  IF zone.given THEN zone.compute_zone ELSE NoZoneName

\* execute, second part: render the config files, then one build call.
\* "config" is an exception of a templater (the driver is not reached),
\* "build" an exception of the driver's build; both propagate.
BuildOutcomes == {"ok", "config", "build"}

ComputeCreate_execute_build(a) ==
  /\ pc[a] = "cc_build"
  /\ \E out \in BuildOutcomes :
       /\ driverCalls' = [driverCalls EXCEPT ![a] =
             IF out = "config" THEN @
             ELSE Append(@, Call("ComputeCreate.execute", "build", a,
                                 out = "ok"))]
       /\ IF out = "ok"
          THEN /\ instances' = instances \cup {ComputeIdOf(a)}
               /\ ccResult' = [ccResult EXCEPT ![a] = ComputeIdOf(a)]
               /\ pc' = [pc EXCEPT ![a] = "wait_poll"]
          ELSE /\ instances' = instances
               /\ ccResult' = [ccResult EXCEPT ![a] = Failure]
               /\ pc' = [pc EXCEPT ![a] = "cc_revert"]
       /\ configRender' = [configRender EXCEPT ![a] =
             IF out = "config" THEN "failed" ELSE "ok"]
       /\ buildArgs' = [buildArgs EXCEPT ![a] =
             IF out = "config" THEN @
             ELSE BuildArgs(TRUE,
                            network_ids_for(amp_boot_network_list,
                                            availability_zone[a]),
                            amp_availability_zone_for(availability_zone[a]))]
  /\ UNCHANGED <<conf, inputs, teardown, certLoad, sgResult, i, groups,
                 statuses, tickets, gateCalls, sleeps, waitReports, reverts>>

\* variant: the failure marker is not recognised
is_failure_never(result) == FALSE

\* variant: every result is taken for a failure, nothing is ever undone
is_failure_always(result) == TRUE

\* ---- CertComputeCreate ----
CertOutcomes == {"ok", "read_failed", "decrypt_failed"}

\* variant: a certificate that cannot be loaded is ignored
after_cert_load_ignored(out) == "execute"

\* an exception of open/read or of fer.decrypt leaves execute at once
after_cert_load(out) == IF out = "ok" THEN "execute" ELSE "raise"

\* execute up to the call of ComputeCreate.execute: read the CA file,
\* decrypt the server certificate
CertComputeCreate_execute_load(a) ==
  /\ pc[a] = "cert_load"
  /\ \E out \in CertOutcomes :
       /\ certLoad' = [certLoad EXCEPT ![a] = out]
       /\ IF after_cert_load(out) = "execute"
          THEN /\ pc' = [pc EXCEPT ![a] = "cc_admit"]
               /\ ccResult' = ccResult
          ELSE /\ pc' = [pc EXCEPT ![a] = "cc_revert"]
               /\ ccResult' = [ccResult EXCEPT ![a] = Failure]
  /\ UNCHANGED <<conf, inputs, teardown, buildArgs, configRender, sgResult, i,
                 instances, groups, driverCalls, statuses, tickets, gateCalls,
                 sleeps, waitReports, reverts>>

\* revert: nothing to undo when execute itself failed
is_failure(result) == result = Failure

\* variant: the amphora id is deleted instead of the compute id
revert_amphora_id(result, amphora_id) == amphora_id

\* revert: the compute id to delete is the result of execute
revert_compute_id(result, amphora_id) == result

\* variant: no try/except around the delete, its exception escapes
ComputeCreate_revert_unguarded(delete_ok) ==
  IF delete_ok THEN "returned" ELSE "raised"

\* revert: an exception of the driver's delete is logged and swallowed
ComputeCreate_revert_outcome(delete_ok) == "returned"

ComputeCreate_revert(a) ==
  /\ pc[a] = "cc_revert"
  /\ IF is_failure(ccResult[a])
     THEN /\ UNCHANGED <<driverCalls, instances>>
          /\ reverts' = [reverts EXCEPT ![a] =
                Append(@, [task |-> "ComputeCreate.revert",
                           outcome |-> "returned"])]
          /\ pc' = [pc EXCEPT ![a] = "sg_revert"]
     ELSE LET compute_id == revert_compute_id(ccResult[a], a) IN
          /\ \E delete_ok \in BOOLEAN :
               /\ driverCalls' = [driverCalls EXCEPT ![a] =
                     Append(@, Call("ComputeCreate.revert", "delete",
                                    compute_id, delete_ok))]
               /\ instances' = IF delete_ok THEN instances \ {compute_id}
                               ELSE instances
               /\ reverts' = [reverts EXCEPT ![a] =
                     Append(@, [task |-> "ComputeCreate.revert",
                                outcome |->
                                  ComputeCreate_revert_outcome(delete_ok)])]
               /\ pc' = [pc EXCEPT ![a] =
                     IF ComputeCreate_revert_outcome(delete_ok) = "returned"
                     THEN "sg_revert" ELSE "revert_failed"]
  /\ UNCHANGED <<conf, inputs, teardown, certLoad, configRender, buildArgs,
                 sgResult, ccResult, i, groups, statuses, tickets, gateCalls,
                 sleeps, waitReports>>

\* ---- ComputeActiveWait ----
Report(kind, fault, id) == [kind |-> kind, fault |-> fault, id |-> id]

\* variant: off by one, the loop runs retries + 1 times
range_one_more(idx, retries) == idx <= retries

\* for i in range(amp_active_retries): another iteration is due
range_has_next(idx, retries) == idx < retries

\* variant: the ACTIVE branch forgets the release
release_never(t, amphora_id, limit) == t

\* the ACTIVE branch: with the limit enabled the ticket is released
release_on_active(t, amphora_id, limit) ==
  IF limit_enabled(limit) THEN remove_from_build_req_queue(t, amphora_id)
  ELSE t

\* what get_amphora may answer: a status (with a fault when ERROR), or an
\* exception of the driver itself
Answers ==
  {[raised |-> FALSE, status |-> BUILD, fault |-> NoFault],
   [raised |-> FALSE, status |-> ACTIVE, fault |-> NoFault],
   [raised |-> TRUE, status |-> BUILD, fault |-> NoFault]}
  \cup {[raised |-> FALSE, status |-> ERROR, fault |-> f] : f \in Faults}

\* variant: ACTIVE is not recognised, the loop keeps polling
poll_branch_misses_active(status) ==
  IF status = ERROR THEN "raise" ELSE "sleep"

\* variant: ERROR is retried like a build in progress
poll_branch_retries_error(status) ==
  IF status = ACTIVE THEN "return" ELSE "sleep"

\* variant: ERROR ends the wait like ACTIVE
poll_branch_error_returns(status) ==
  IF status \in {ACTIVE, ERROR} THEN "return" ELSE "sleep"

\* variant: the loop sleeps after every poll, whatever the status
poll_branch_always_sleeps(status) == "sleep"

\* the branch the loop body takes on a status
poll_branch(status) ==
  IF status = ACTIVE THEN "return"
  ELSE IF status = ERROR THEN "raise"
  ELSE "sleep"

\* one iteration of the loop up to the sleep: poll, then branch on the status
ComputeActiveWait_execute_poll(a) ==
  /\ pc[a] = "wait_poll"
  /\ range_has_next(i[a], amp_active_retries)
  /\ \E ans \in Answers :
       /\ driverCalls' = [driverCalls EXCEPT ![a] =
             Append(@, Call("ComputeActiveWait.execute", "get_amphora",
                            ccResult[a], ~ans.raised))]
       /\ IF ans.raised
          THEN /\ waitReports' = [waitReports EXCEPT ![a] =
                     Append(@, Report("driver_error", NoFault, None))]
               /\ pc' = [pc EXCEPT ![a] = "cc_revert"]
               /\ UNCHANGED <<statuses, tickets, gateCalls>>
          ELSE /\ statuses' = [statuses EXCEPT ![a] =
                     Append(@, [status |-> ans.status, fault |-> ans.fault])]
               /\ IF poll_branch(ans.status) = "return"
                  THEN /\ tickets' = release_on_active(tickets, a,
                                                       build_rate_limit)
                       /\ gateCalls' = IF limit_enabled(build_rate_limit)
                            THEN [gateCalls EXCEPT ![a].remove = @ + 1]
                            ELSE gateCalls
                       /\ waitReports' = [waitReports EXCEPT ![a] =
                             Append(@, Report("success", NoFault,
                                              ccResult[a]))]
                       /\ pc' = [pc EXCEPT ![a] = "done"]
                  ELSE IF poll_branch(ans.status) = "raise"
                  THEN /\ waitReports' = [waitReports EXCEPT ![a] =
                             Append(@, Report("build_failure", ans.fault,
                                              None))]
                       /\ pc' = [pc EXCEPT ![a] = "cc_revert"]
                       /\ UNCHANGED <<tickets, gateCalls>>
                  ELSE /\ pc' = [pc EXCEPT ![a] = "wait_sleep"]
                       /\ UNCHANGED <<tickets, gateCalls, waitReports>>
  /\ UNCHANGED <<conf, inputs, teardown, certLoad, configRender, buildArgs,
                 sgResult, ccResult, i, instances, groups, sleeps, reverts>>

\* the rest of the iteration: sleep, then the next index
ComputeActiveWait_execute_sleep(a) ==
  /\ pc[a] = "wait_sleep"
  /\ sleeps' = [sleeps EXCEPT ![a] = @ + 1]
  /\ i' = [i EXCEPT ![a] = @ + 1]
  /\ pc' = [pc EXCEPT ![a] = "wait_poll"]
  /\ UNCHANGED <<conf, inputs, teardown, certLoad, configRender, buildArgs,
                 sgResult, ccResult, instances, groups, driverCalls, statuses,
                 tickets, gateCalls, waitReports, reverts>>

\* variant: the raise after the loop is missing, execute falls off its end
ComputeActiveWait_execute_no_raise(a) ==
  /\ pc[a] = "wait_poll"
  /\ ~range_has_next(i[a], amp_active_retries)
  /\ pc' = [pc EXCEPT ![a] = "done"]
  /\ UNCHANGED <<conf, inputs, teardown, certLoad, configRender, buildArgs,
                 sgResult, ccResult, i, instances, groups, driverCalls,
                 statuses, tickets, gateCalls, sleeps, waitReports, reverts>>

\* the loop is exhausted: the timeout exception names the compute id
ComputeActiveWait_execute_timeout(a) ==
  /\ pc[a] = "wait_poll"
  /\ ~range_has_next(i[a], amp_active_retries)
  /\ waitReports' = [waitReports EXCEPT ![a] =
        Append(@, Report("timeout", NoFault, ccResult[a]))]
  /\ pc' = [pc EXCEPT ![a] = "cc_revert"]
  /\ UNCHANGED <<conf, inputs, teardown, certLoad, configRender, buildArgs,
                 sgResult, ccResult, i, instances, groups, driverCalls,
                 statuses, tickets, gateCalls, sleeps, reverts>>

Next ==
  \E a \in Amphorae :
    \/ NovaServerGroupCreate_execute(a)
    \/ NovaServerGroupCreate_revert(a)
    \/ ComputeCreate_execute_admit(a)
    \/ ComputeCreate_execute_build(a)
    \/ ComputeCreate_revert(a)
    \/ ComputeActiveWait_execute_poll(a)
    \/ ComputeActiveWait_execute_sleep(a)
    \/ ComputeActiveWait_execute_timeout(a)

Spec == Init /\ [][Next]_vars

\* one flow on its own, and a called ComputeActiveWait.execute keeps
\* running: its thread is not starved, time.sleep returns
FairSpec ==
  /\ InitSingle
  /\ [][Next]_vars
  /\ \A a \in Amphorae :
       /\ WF_vars(ComputeActiveWait_execute_poll(a))
       /\ WF_vars(ComputeActiveWait_execute_sleep(a))
       /\ WF_vars(ComputeActiveWait_execute_timeout(a))

\* ---- one flow with every input ----
NetworkLists == UNION {[1..n -> Networks] : n \in 0..NumNetworks}

\* a single flow of either create task, with any configured boot network
\* list and any availability zone metadata
InitCreate ==
  /\ InitWith({1})
  /\ amp_boot_network_list \in NetworkLists
  /\ \E z \in Zones :
       availability_zone = [a \in Amphorae |-> IF a = 1 THEN z ELSE NoZone]
  /\ \E t \in {"ComputeCreate", "CertComputeCreate"} :
       create_task = [a \in Amphorae |->
                        IF a = 1 THEN t ELSE "ComputeCreate"]

CreateNext ==
  \/ Next
  \/ \E a \in Amphorae : CertComputeCreate_execute_load(a)

CreateSpec == InitCreate /\ [][CreateNext]_vars

\* ---- teardown tasks ----
\* the load balancers the repository may return: their amphorae's compute
\* ids, each at most once, in the order of iteration
LbComputeIds == {ComputeIdOf(k) : k \in 1..MaxLbAmphorae}

HandleLists ==
  {s \in UNION {[1..n -> LbComputeIds] : n \in 0..MaxLbAmphorae} :
     \A j, k \in DOMAIN s : j # k => s[j] # s[k]}

\* a teardown task has been handed its input; the instances and the group
\* it names exist at the driver, no provisioning flow is running
InitTeardown ==
  /\ SagasInit({})
  /\ DefaultInputs
  /\ td_calls = <<>>
  /\ \/ /\ td_pc = "delete_amphorae"
        /\ td_amphorae \in HandleLists
        /\ td_server_group_id = None
     \/ /\ td_pc = "sg_delete"
        /\ td_amphorae = <<>>
        /\ td_server_group_id \in
             {None} \cup {ServerGroupIdOf(a) : a \in Amphorae}
  /\ instances = {td_amphorae[k] : k \in DOMAIN td_amphorae}
  /\ groups = {td_server_group_id} \ {None}

\* variant: a failed delete is logged and the loop goes on
after_delete_swallowed(ok) == "continue"

\* DeleteAmphoraeOnLoadBalancer: a failed delete is logged and re-raised
after_delete(ok) == IF ok THEN "continue" ELSE "raise"

\* DeleteAmphoraeOnLoadBalancer.execute, one iteration of the loop over
\* db_lb.amphorae (the calls made so far tell the position), or the return
\* when the list is exhausted
DeleteAmphoraeOnLoadBalancer_execute ==
  /\ td_pc = "delete_amphorae"
  /\ IF Len(td_calls) < Len(td_amphorae)
     THEN \E ok \in BOOLEAN :
            LET compute_id == td_amphorae[Len(td_calls) + 1] IN
            /\ td_calls' = Append(td_calls,
                  Call("DeleteAmphoraeOnLoadBalancer.execute", "delete",
                       compute_id, ok))
            /\ instances' = IF ok THEN instances \ {compute_id}
                            ELSE instances
            /\ td_pc' = IF after_delete(ok) = "raise" THEN "raised"
                        ELSE "delete_amphorae"
     ELSE /\ td_pc' = "returned"
          /\ UNCHANGED <<td_calls, instances>>
  /\ UNCHANGED <<conf, inputs, certLoad, configRender, buildArgs, pc,
                 sgResult, ccResult, i, groups, driverCalls, statuses,
                 tickets, gateCalls, sleeps, waitReports, reverts,
                 td_amphorae, td_server_group_id>>

\* variant: the driver is called whatever the id is
has_server_group_always(server_group_id) == TRUE

\* NovaServerGroupDelete: the id is present
has_server_group(server_group_id) == server_group_id # None

\* NovaServerGroupDelete.execute: one delete_server_group call when the id
\* is present (its exception propagates), nothing otherwise
NovaServerGroupDelete_execute ==
  /\ td_pc = "sg_delete"
  /\ IF has_server_group(td_server_group_id)
     THEN \E ok \in BOOLEAN :
            /\ td_calls' = Append(td_calls,
                  Call("NovaServerGroupDelete.execute",
                       "delete_server_group", td_server_group_id, ok))
            /\ groups' = IF ok THEN groups \ {td_server_group_id}
                         ELSE groups
            /\ td_pc' = IF ok THEN "sg_returned" ELSE "sg_raised"
     ELSE /\ td_pc' = "sg_returned"
          /\ UNCHANGED <<td_calls, groups>>
  /\ UNCHANGED <<conf, inputs, certLoad, configRender, buildArgs, pc,
                 sgResult, ccResult, i, instances, driverCalls, statuses,
                 tickets, gateCalls, sleeps, waitReports, reverts,
                 td_amphorae, td_server_group_id>>

TeardownNext ==
  \/ DeleteAmphoraeOnLoadBalancer_execute
  \/ NovaServerGroupDelete_execute

TeardownSpec == InitTeardown /\ [][TeardownNext]_vars

\* ---- properties ----
Ended(a) == pc[a] \in {"done", "reverted", "revert_failed"}

\* ComputeCreate.revert has been called and has completed
ComputeCreateReverted(a) ==
  \E k \in 1..Len(reverts[a]) : reverts[a][k].task = "ComputeCreate.revert"

\* ComputeCreate.execute returned a compute id
ComputeCreated(a) == ccResult[a] \notin {None, Failure}

\* NovaServerGroupCreate.execute returned a server group id
GroupCreated(a) == sgResult[a] \notin {None, Failure}

OpArgs(calls) == [k \in 1..Len(calls) |-> <<calls[k].op, calls[k].arg>>]

\* C1 (as claimed): with the build limit enabled, an amphora id never holds
\* more than one ticket, and when its saga has ended a ticket that
\* ComputeCreate.execute registered has been removed exactly once (one
\* remove call, no ticket left), on success and on abort alike.
C1_TicketRemovedExactlyOnce ==
  limit_enabled(build_rate_limit) =>
    \A a \in Amphorae :
      /\ tickets[a] <= 1
      /\ gateCalls[a].remove <= 1
      /\ (Ended(a) /\ gateCalls[a].admitted = 1) =>
           (gateCalls[a].remove = 1 /\ tickets[a] = 0)

\* C2: an amphora id holds no ticket before ComputeCreate.execute starts,
\* and none again once ComputeActiveWait.execute has returned on ACTIVE.
C2_NetZeroTickets ==
  \A a \in Amphorae :
    /\ pc[a] \in {"sg_create", "cc_admit"} => tickets[a] = 0
    /\ (pc[a] = "done" /\ ComputeCreated(a)) => tickets[a] = 0

\* a run that held a ticket in between has succeeded
C2_Witness ==
  \E a \in Amphorae :
    /\ pc[a] = "done"
    /\ gateCalls[a].admitted = 1
    /\ waitReports[a] = <<Report("success", NoFault, ComputeIdOf(a))>>

\* C3: once ComputeCreate.revert has run on a compute id h that execute
\* returned, the driver calls it made are exactly one delete, of h.
C3_RevertDeletesOnceWithHandle ==
  \A a \in Amphorae :
    (ComputeCreated(a) /\ ComputeCreateReverted(a)) =>
      /\ ccResult[a] = ComputeIdOf(a)
      /\ OpArgs(CallsOf(a, "ComputeCreate.revert"))
           = << <<"delete", ComputeIdOf(a)>> >>

\* the revert has run after a later step (the readiness wait) failed
C3_Witness ==
  \E a \in Amphorae :
    /\ ComputeCreated(a) /\ ComputeCreateReverted(a)
    /\ waitReports[a] # <<>>
    /\ waitReports[a][1].kind = "build_failure"

\* C4: a ComputeCreate.revert that received the failure marker makes no
\* driver call and leaves everything but the saga's position unchanged.
C4_RevertOfFailureIsNoOp ==
  [][\A a \in Amphorae :
       (pc[a] = "cc_revert" /\ ccResult[a] = Failure
          /\ pc'[a] # "cc_revert") =>
         /\ pc'[a] = "sg_revert"
         /\ UNCHANGED <<conf, inputs, teardown, certLoad, configRender,
                        buildArgs, sgResult, ccResult, i, instances, groups,
                        driverCalls, statuses, tickets, gateCalls, sleeps,
                        waitReports>>]_vars

\* the revert of a failed execute has run: the build raised, the revert
\* made no call
C4_Witness ==
  \E a \in Amphorae :
    /\ ccResult[a] = Failure /\ ComputeCreateReverted(a)
    /\ Len(CallsOp(a, "build")) = 1
    /\ CallsOf(a, "ComputeCreate.revert") = <<>>

\* C5: every revert call completes normally, whatever the driver's delete
\* or delete_server_group did, and the unwinding is never cut short: after
\* ComputeCreate.revert the revert of NovaServerGroupCreate is still due or
\* has run.
C5_RevertsNeverRaise ==
  \A a \in Amphorae :
    /\ \A k \in 1..Len(reverts[a]) : reverts[a][k].outcome = "returned"
    /\ pc[a] # "revert_failed"
    /\ ComputeCreateReverted(a) => pc[a] \in {"sg_revert", "reverted"}
    /\ pc[a] = "reverted" =>
         reverts[a][Len(reverts[a])].task = "NovaServerGroupCreate.revert"

\* both deletes of one unwinding failed at the driver
C5_Witness ==
  \E a \in Amphorae :
    /\ pc[a] = "reverted"
    /\ \E k \in 1..Len(driverCalls[a]) :
         driverCalls[a][k].op = "delete" /\ ~driverCalls[a][k].ok
    /\ \E k \in 1..Len(driverCalls[a]) :
         driverCalls[a][k].op = "delete_server_group"
           /\ ~driverCalls[a][k].ok

\* the driver deleted what the run created
Compensated(a) ==
  /\ ComputeIdOf(a) \notin instances
  /\ ServerGroupIdOf(a) \notin groups

\* C6 (as claimed): when a saga has ended, either every step succeeded or
\* every compute instance and server group it created has been deleted.
C6_AllOrNothing ==
  \A a \in Amphorae :
    Ended(a) =>
      \/ pc[a] = "done"
      \/ Compensated(a)

\* the calls of one driver operation, and whether x is gone when the one
\* delete call made for it returned
DeletedIfOk(calls, x, existing) ==
  /\ Len(calls) = 1
  /\ calls[1].arg = x
  /\ calls[1].ok => x \notin existing

\* C6 (amended): when a saga has ended, either every step succeeded and
\* nothing was deleted, or each compute instance and server group the run
\* created has had the driver's delete called on it exactly once by its
\* revert, and is gone whenever that call returned; what the run did not
\* create does not exist.
C6_CompensatedBestEffort ==
  \A a \in Amphorae :
    Ended(a) =>
      \/ /\ pc[a] = "done"
         /\ GroupCreated(a) /\ ComputeCreated(a)
         /\ waitReports[a] = <<Report("success", NoFault, ComputeIdOf(a))>>
         /\ ComputeIdOf(a) \in instances /\ ServerGroupIdOf(a) \in groups
         /\ CallsOp(a, "delete") = <<>>
         /\ CallsOp(a, "delete_server_group") = <<>>
      \/ /\ pc[a] = "reverted"
         /\ IF ComputeCreated(a)
            THEN DeletedIfOk(CallsOp(a, "delete"), ComputeIdOf(a), instances)
            ELSE ComputeIdOf(a) \notin instances
                   /\ CallsOp(a, "delete") = <<>>
         /\ IF GroupCreated(a)
            THEN DeletedIfOk(CallsOp(a, "delete_server_group"),
                             ServerGroupIdOf(a), groups)
            ELSE ServerGroupIdOf(a) \notin groups

\* a run that created both, failed in the readiness wait, and was unwound
\* with both deletes returning
C6_Witness ==
  \E a \in Amphorae :
    /\ pc[a] = "reverted"
    /\ ComputeCreated(a) /\ GroupCreated(a)
    /\ waitReports[a] # <<>>
    /\ Compensated(a)

\* index of the first ACTIVE or ERROR answer in s, 0 when there is none
FirstTerminal(s) ==
  IF \E k \in 1..Len(s) : s[k].status \in {ACTIVE, ERROR}
  THEN CHOOSE k \in 1..Len(s) :
         /\ s[k].status \in {ACTIVE, ERROR}
         /\ \A j \in 1..(k - 1) : s[j].status \notin {ACTIVE, ERROR}
  ELSE 0

Polls(a) == Len(CallsOp(a, "get_amphora"))

\* C7: when the driver's answers are k - 1 statuses that are neither ACTIVE
\* nor ERROR and then ACTIVE, with k <= amp_active_retries, execute has
\* returned success after exactly k polls, and with the limit enabled it
\* has called the release for the amphora id exactly once (never with the
\* limit disabled).
C7_ActiveAfterKPolls ==
  \A a \in Amphorae :
    LET s == statuses[a]
        k == FirstTerminal(s)
    IN (k >= 1 /\ s[k].status = ACTIVE /\ k <= amp_active_retries) =>
         /\ waitReports[a] = <<Report("success", NoFault, ComputeIdOf(a))>>
         /\ Polls(a) = k /\ Len(s) = k
         /\ sleeps[a] = k - 1
         /\ pc[a] = "done"
         /\ gateCalls[a].remove = IF build_rate_limit # -1 THEN 1 ELSE 0

\* retries = 3 and the answers BUILD, BUILD, ACTIVE, limit enabled
C7_Witness ==
  \E a \in Amphorae :
    /\ amp_active_retries = 3
    /\ build_rate_limit # -1
    /\ statuses[a] = <<[status |-> BUILD, fault |-> NoFault],
                       [status |-> BUILD, fault |-> NoFault],
                       [status |-> ACTIVE, fault |-> NoFault]>>
    /\ pc[a] = "done"

\* C8: when a poll answers ERROR, execute has raised the build failure
\* with the driver's fault in that same step: ERROR is the last answer
\* polled, no sleep follows it, no release is called and the ticket stays
\* as it was.
C8_ErrorRaisesAtOnce ==
  \A a \in Amphorae :
    LET s == statuses[a]
        k == FirstTerminal(s)
    IN (k >= 1 /\ s[k].status = ERROR) =>
         /\ waitReports[a] = <<Report("build_failure", s[k].fault, None)>>
         /\ s[k].fault \in Faults
         /\ Polls(a) = k /\ Len(s) = k
         /\ sleeps[a] = k - 1
         /\ pc[a] \notin {"wait_poll", "wait_sleep", "done"}
         /\ gateCalls[a].remove = 0
         /\ tickets[a] = gateCalls[a].admitted

\* ERROR on the first poll, the saga unwound, the ticket still held
C8_Witness ==
  \E a \in Amphorae :
    /\ Len(statuses[a]) = 1
    /\ statuses[a][1].status = ERROR
    /\ pc[a] = "reverted"
    /\ tickets[a] = 1

NoneTerminal(s, n) ==
  /\ Len(s) >= n
  /\ \A k \in 1..n : s[k].status \notin {ACTIVE, ERROR}

\* C9: execute never polls more than amp_active_retries times; when the
\* first amp_active_retries answers are neither ACTIVE nor ERROR and
\* execute has finished, it has raised the timeout naming the compute id
\* after exactly that many polls; and it raises the timeout in no other
\* case.
C9_TimeoutAfterRPolls ==
  \A a \in Amphorae :
    /\ Polls(a) <= amp_active_retries
    /\ (waitReports[a] # <<>>
          /\ NoneTerminal(statuses[a], amp_active_retries)) =>
         /\ waitReports[a] = <<Report("timeout", NoFault, ComputeIdOf(a))>>
         /\ Polls(a) = amp_active_retries
         /\ Len(statuses[a]) = amp_active_retries
    /\ (waitReports[a] # <<>> /\ waitReports[a][1].kind = "timeout") =>
         /\ Polls(a) = amp_active_retries
         /\ NoneTerminal(statuses[a], amp_active_retries)

\* retries = 2 and the answers BUILD, BUILD: timeout after two polls
C9_Witness ==
  \E a \in Amphorae :
    /\ amp_active_retries = 2
    /\ statuses[a] = <<[status |-> BUILD, fault |-> NoFault],
                       [status |-> BUILD, fault |-> NoFault]>>
    /\ waitReports[a] = <<Report("timeout", NoFault, ComputeIdOf(a))>>
    /\ Polls(a) = 2

\* every get_amphora call so far returned a status
DriverAnswered(a) ==
  \A k \in 1..Len(driverCalls[a]) :
    driverCalls[a][k].op = "get_amphora" => driverCalls[a][k].ok

WaitOutcomes == {"success", "build_failure", "timeout"}

\* C10: execute polls at most amp_active_retries times, reports at most
\* one outcome, reports success, build failure or timeout whenever the
\* driver answered every poll with a status, is over once it has reported,
\* and a started execute does report.
C10_WaitTerminatesWithOneOutcome ==
  /\ [](\A a \in Amphorae :
          /\ Polls(a) <= amp_active_retries
          /\ Len(waitReports[a]) <= 1
          /\ (waitReports[a] # <<>> /\ DriverAnswered(a)) =>
               waitReports[a][1].kind \in WaitOutcomes
          /\ waitReports[a] # <<>> =>
               pc[a] \notin {"wait_poll", "wait_sleep"}
          /\ pc[a] \in {"done", "cc_revert"} /\ ComputeCreated(a) =>
               Len(waitReports[a]) = 1)
  /\ \A a \in Amphorae :
       (pc[a] = "wait_poll") ~> (Len(waitReports[a]) = 1)

\* with a retry count of 0 execute has raised the timeout without a poll
C10_Witness ==
  /\ amp_active_retries = 0
  /\ \E a \in Amphorae :
       /\ waitReports[a] = <<Report("timeout", NoFault, ComputeIdOf(a))>>
       /\ Polls(a) = 0

\* the delete calls of the bulk teardown
BulkCalls ==
  SelectSeq(td_calls,
            LAMBDA c : c.task = "DeleteAmphoraeOnLoadBalancer.execute")

\* C11: DeleteAmphoraeOnLoadBalancer.execute makes its delete calls one
\* per instance in the order of the list; no call follows a failed one, so
\* when the delete of the i-th instance fails exactly i calls have been
\* made, none for a later instance, and the failure has propagated; it
\* raises in no other case and returns only after every delete succeeded.
C11_BulkTeardownStopsAtFirstFailure ==
  LET n == Len(BulkCalls) IN
  /\ n <= Len(td_amphorae)
  /\ \A k \in 1..n :
       /\ BulkCalls[k].op = "delete"
       /\ BulkCalls[k].arg = td_amphorae[k]
       /\ k < n => BulkCalls[k].ok
  /\ (n >= 1 /\ ~BulkCalls[n].ok) => td_pc = "raised"
  /\ td_pc = "raised" => (n >= 1 /\ ~BulkCalls[n].ok)
  /\ td_pc = "returned" =>
       (n = Len(td_amphorae) /\ \A k \in 1..n : BulkCalls[k].ok)

\* three instances, the second delete failed: two calls and the failure
C11_Witness ==
  /\ Len(td_amphorae) = 3
  /\ td_pc = "raised"
  /\ Len(BulkCalls) = 2
  /\ BulkCalls[1].ok /\ ~BulkCalls[2].ok
  /\ td_amphorae[3] \in instances

\* C12: NovaServerGroupDelete.execute with server_group_id None has made
\* no driver call when it is over; with an id it has made exactly one,
\* delete_server_group of that id; and it never passes None to the driver.
C12_GroupDeleteSkipsNone ==
  /\ \A k \in 1..Len(td_calls) : td_calls[k].arg # None
  /\ td_pc \in {"sg_delete", "sg_returned", "sg_raised"} =>
       Len(td_calls) <= 1
  /\ td_pc \in {"sg_returned", "sg_raised"} =>
       IF td_server_group_id = None
       THEN td_calls = <<>> /\ td_pc = "sg_returned"
       ELSE OpArgs(td_calls)
              = << <<"delete_server_group", td_server_group_id>> >>

\* the task has run with None and made no call
C12_Witness ==
  /\ td_pc = "sg_returned"
  /\ td_server_group_id = None
  /\ td_calls = <<>>

\* C13: the network list ComputeCreate.execute passes to build is exactly
\* the one management network of the availability zone metadata when the
\* metadata carries one, and exactly the configured list otherwise; build
\* has been called exactly when the arguments are recorded.
C13_ManagementNetworkReplacesList ==
  \A a \in Amphorae :
    /\ buildArgs[a].called <=> Len(CallsOp(a, "build")) = 1
    /\ buildArgs[a].called =>
         LET z == availability_zone[a] IN
         IF z.given /\ z.management_network \in Networks
         THEN buildArgs[a].network_ids = <<z.management_network>>
         ELSE buildArgs[a].network_ids = amp_boot_network_list

\* build was called with the management network alone although two boot
\* networks are configured
C13_Witness ==
  \E a \in Amphorae :
    /\ buildArgs[a].called
    /\ Len(amp_boot_network_list) = 2
    /\ availability_zone[a].management_network \in Networks
    /\ buildArgs[a].network_ids = <<availability_zone[a].management_network>>

CertFailed(a) == certLoad[a] \in {"read_failed", "decrypt_failed"}

\* C18: when CertComputeCreate.execute could not read the CA file or
\* decrypt the server certificate, execute has failed with that, the rate
\* limiter was never asked and holds no ticket for the amphora id, build
\* was never called, and the revert of the create task makes no driver
\* call.
C18_CertFailureBuildsNothing ==
  \A a \in Amphorae :
    CertFailed(a) =>
      /\ ccResult[a] = Failure
      /\ pc[a] \in {"cc_revert", "sg_revert", "reverted"}
      /\ gateCalls[a] = [add |-> 0, admitted |-> 0, remove |-> 0]
      /\ tickets[a] = 0
      /\ CallsOp(a, "build") = <<>> /\ ~buildArgs[a].called
      /\ CallsOp(a, "delete") = <<>>
      /\ CallsOf(a, "ComputeCreate.revert") = <<>>
      /\ ComputeIdOf(a) \notin instances

\* the decryption failed and the flow has been unwound, with the limit
\* enabled
C18_Witness ==
  \E a \in Amphorae :
    /\ certLoad[a] = "decrypt_failed"
    /\ build_rate_limit # -1
    /\ pc[a] = "reverted"
    /\ ComputeCreateReverted(a)

\* C14 (as claimed): once NovaServerGroupCreate.revert has run on the
\* failure marker, it has made no delete_server_group call.
C14_GroupRevertOfFailureIsNoOp ==
  \A a \in Amphorae :
    (sgResult[a] = Failure /\ pc[a] = "reverted") =>
      CallsOf(a, "NovaServerGroupCreate.revert") = <<>>

\* the last status the poller of a was given
LastStatus(a) == statuses[a][Len(statuses[a])].status

\* C15: the ticket is released only on the success path of the readiness
\* wait.  A step of ComputeCreate.revert or NovaServerGroupCreate.revert
\* makes no rate limiter call and leaves every ticket as it was; the one
\* release call of a run is made in the poll step that is answered ACTIVE,
\* which ends the wait; and no ticket is taken away without that call.
C15_ReleaseOnlyOnActive ==
  [][\A a \in Amphorae :
       /\ (pc[a] \in {"cc_revert", "sg_revert"} /\ pc'[a] # pc[a]) =>
            UNCHANGED <<tickets, gateCalls>>
       /\ gateCalls'[a].remove # gateCalls[a].remove =>
            /\ pc[a] = "wait_poll" /\ pc'[a] = "done"
            /\ gateCalls[a].remove = 0 /\ gateCalls'[a].remove = 1
            /\ Len(statuses'[a]) = Len(statuses[a]) + 1
            /\ statuses'[a][Len(statuses'[a])].status = ACTIVE
       /\ tickets'[a] < tickets[a] =>
            gateCalls'[a].remove = gateCalls[a].remove + 1]_vars

\* one run was unwound with its ticket still registered, another released
\* its ticket on ACTIVE
C15_Witness ==
  \E a, b \in Amphorae :
    /\ pc[a] = "reverted" /\ gateCalls[a].admitted = 1
    /\ gateCalls[a].remove = 0 /\ tickets[a] = 1
    /\ pc[b] = "done" /\ gateCalls[b].remove = 1
    /\ LastStatus(b) = ACTIVE

\* C17: the poller sleeps only between gate operations, never around one.
\* Every sleep, taken or about to be taken, follows a poll whose status was
\* neither ACTIVE nor ERROR, with no release call made yet; once the release
\* call has been made the last status is ACTIVE, the wait has returned, and
\* no sleep came after that poll.
C17_NoSleepAroundRelease ==
  \A a \in Amphorae :
    /\ pc[a] = "wait_sleep" =>
         /\ statuses[a] # <<>>
         /\ LastStatus(a) \notin {ACTIVE, ERROR}
         /\ gateCalls[a].remove = 0
    /\ sleeps[a] <= Len(statuses[a])
    /\ \A k \in 1..sleeps[a] :
         statuses[a][k].status \notin {ACTIVE, ERROR}
    /\ gateCalls[a].remove > 0 =>
         /\ pc[a] = "done"
         /\ LastStatus(a) = ACTIVE
         /\ sleeps[a] = Len(statuses[a]) - 1

\* the poller is about to sleep a second time while its ticket is
\* registered
C17_Witness ==
  \E a \in Amphorae :
    /\ pc[a] = "wait_sleep"
    /\ sleeps[a] = 1
    /\ gateCalls[a].admitted = 1 /\ gateCalls[a].remove = 0

\* the rate limiter calls made for a: none
NoGateCalls(a) == gateCalls[a] = [add |-> 0, admitted |-> 0, remove |-> 0]

\* C19: with the build limit disabled (-1) no run makes a rate limiter
\* call, neither to register nor to release, every ticket stays as it was
\* at the start, and every run that got past the server group goes on to
\* the build step: it is never refused, whatever the other runs are doing.
C19_DisabledLimitAdmitsAll ==
  build_rate_limit = -1 =>
    \A a \in Amphorae :
      /\ NoGateCalls(a)
      /\ tickets[a] = 0
      /\ (GroupCreated(a) /\ pc[a] \notin {"cc_admit", "cc_build"}) =>
           configRender[a] # "none"
      /\ (ccResult[a] = Failure /\ GroupCreated(a)) =>
           \/ configRender[a] = "failed"
           \/ \E k \in 1..Len(driverCalls[a]) :
                driverCalls[a][k].op = "build" /\ ~driverCalls[a][k].ok

\* with the limit disabled two builds are in flight at once, and one of the
\* two runs has already seen ACTIVE
C19_Witness ==
  /\ build_rate_limit = -1
  /\ \E a, b \in Amphorae :
       /\ a # b
       /\ ComputeCreated(a) /\ pc[a] = "wait_sleep"
       /\ ComputeCreated(b) /\ pc[b] = "done"
       /\ LastStatus(b) = ACTIVE

\* the rate limiter refused the request of a
Refused(a) == gateCalls[a].add > gateCalls[a].admitted

\* C20: with the build limit enabled, admission strictly precedes the
\* build.  execute asks the rate limiter at most once; the templaters and
\* the driver's build are reached only by a run whose ticket was registered;
\* build is called at most once; and a run whose request was refused never
\* calls build: its execute failed and the flow is being unwound.
C20_AdmissionPrecedesBuild ==
  build_rate_limit # -1 =>
    \A a \in Amphorae :
      /\ gateCalls[a].add <= 1
      /\ Len(CallsOp(a, "build")) <= 1
      /\ pc[a] = "cc_build" => gateCalls[a].admitted = 1 /\ tickets[a] = 1
      /\ (configRender[a] # "none" \/ CallsOp(a, "build") # <<>>) =>
           gateCalls[a].admitted = 1
      /\ Refused(a) =>
           /\ CallsOp(a, "build") = <<>>
           /\ configRender[a] = "none" /\ ~buildArgs[a].called
           /\ ccResult[a] = Failure
           /\ pc[a] \in {"cc_revert", "sg_revert", "reverted"}

\* one run was refused and unwound without a build while the other, which
\* holds the ticket, has called build
C20_Witness ==
  \E a, b \in Amphorae :
    /\ Refused(a) /\ pc[a] = "reverted"
    /\ gateCalls[b].admitted = 1 /\ Len(CallsOp(b, "build")) = 1

\* a forward step of a failed on what a's own collaborators answered: a
\* driver call that raised, a templater that raised, an ERROR status, or
\* no ACTIVE within the retries
OwnFailure(a) ==
  \/ \E k \in 1..Len(driverCalls[a]) :
       /\ driverCalls[a][k].op \in
            {"create_server_group", "build", "get_amphora"}
       /\ ~driverCalls[a][k].ok
  \/ configRender[a] = "failed"
  \/ CertFailed(a)
  \/ \E k \in 1..Len(waitReports[a]) :
       waitReports[a][k].kind \in {"build_failure", "timeout"}

\* a step of saga a leaves the tickets and the rate limiter calls of every
\* other amphora id as they were
OwnTicketOnly ==
  \A a, b \in Amphorae :
    (a # b /\ pc'[a] # pc[a]) =>
      /\ tickets'[b] = tickets[b]
      /\ gateCalls'[b] = gateCalls[b]

HeldByOthers(a) == SumOver(tickets, Amphorae \ {a})

====
